---- MODULE Spec2Model ----
(***************************************************************************)
(* Model of streaming_scraper.py (class StreamingScraper): link extraction *)
(* from text, link validation, resolution through the AllDebrid service,   *)
(* the sequential batch pipeline and the file entry point.                 *)
(*                                                                         *)
(* Python strings are sequences of one-character strings, so that parsing, *)
(* lower-casing, substring tests and the URL regular expression are        *)
(* computed character by character.  Python's None is the value None, a    *)
(* missing dictionary key is the value Absent.                             *)
(***************************************************************************)
EXTENDS Integers, Sequences, FiniteSets, TLC

(* ------------------------------ bounds -------------------------------- *)

\* longest batch handed directly to process_links_batch
MaxBatch == 3

\* a file's text is a concatenation of at most MaxChunks pieces of TextChunks
MaxChunks == 3

(* ------------------------------ values -------------------------------- *)

None == "None"

Absent == "Absent"

NoFault == "NoFault"

Range(s) == {s[k] : k \in 1..Len(s)}

(* ------------------------ strings, character-wise --------------------- *)

UpperChars == <<"A","B","C","D","E","F","G","H","I","J","K","L","M",
                "N","O","P","Q","R","S","T","U","V","W","X","Y","Z">>

LowerChars == <<"a","b","c","d","e","f","g","h","i","j","k","l","m",
                "n","o","p","q","r","s","t","u","v","w","x","y","z">>

DigitChars == {"0","1","2","3","4","5","6","7","8","9"}

Letters == Range(UpperChars) \cup Range(LowerChars)

\* the lower-case letter of each upper-case letter
LowerOf == [c \in Range(UpperChars) |-> LowerChars[CHOOSE k \in 1..26 : UpperChars[k] = c]]

\* str.lower() on one character
LowerChar(c) == IF c \in DOMAIN LowerOf THEN LowerOf[c] ELSE c

\* str.lower()
Lower(s) == [k \in 1..Len(s) |-> LowerChar(s[k])]

\* first index >= from of a character of set cs in s, 0 when there is none
FindChar(s, cs, from) ==
  LET at == {k \in from..Len(s) : s[k] \in cs}
  IN  IF at = {} THEN 0 ELSE CHOOSE k \in at : \A j \in at : k <= j

\* last index of character c in s, 0 when there is none
RFindChar(s, c) ==
  LET at == {k \in 1..Len(s) : s[k] = c}
  IN  IF at = {} THEN 0 ELSE CHOOSE k \in at : \A j \in at : k >= j

\* Python's `sub in s` for strings
Contains(sub, s) ==
  \E k \in 0..(Len(s) - Len(sub)) : \A j \in 1..Len(sub) : s[k + j] = sub[j]

\* s[from:] starts with the string pre
StartsWithAt(s, pre, from) ==
  /\ from + Len(pre) - 1 <= Len(s)
  /\ \A j \in 1..Len(pre) : s[from + j - 1] = pre[j]

(* ---------------------------- host registry --------------------------- *)

\* get_supported_hosts(): the list assigned to self.supported_hosts
supported_hosts ==
  << <<"u","p","l","o","a","d","e","d",".","n","e","t">>,
     <<"r","a","p","i","d","g","a","t","o","r",".","n","e","t">>,
     <<"n","i","t","r","o","f","l","a","r","e",".","c","o","m">>,
     <<"k","a","t","f","i","l","e",".","c","o","m">>,
     <<"u","p","t","o","b","o","x",".","c","o","m">>,
     <<"1","f","i","c","h","i","e","r",".","c","o","m">>,
     <<"f","i","l","e","r","i","o",".","c","o","m">>,
     <<"t","u","r","b","o","b","i","t",".","n","e","t">>,
     <<"u","s","e","r","u","p","l","o","a","d",".","n","e","t">>,
     <<"d","d","o","w","n","l","o","a","d",".","c","o","m">>,
     <<"d","r","o","p","a","p","k",".","t","o">>,
     <<"k","2","s",".","c","c">>,
     <<"k","e","e","p","2","s","h","a","r","e",".","c","c">>,
     <<"f","i","l","e","f","a","c","t","o","r","y",".","c","o","m">>,
     <<"o","b","o","o","m",".","c","o","m">>,
     <<"r","a","p","i","d","r","a","r",".","c","o","m">>,
     <<"f","i","l","e","-","u","p",".","o","r","g">>,
     <<"u","p","l","o","a","d","g","i","g",".","c","o","m">> >>

\* any(host in hostname for host in self.supported_hosts)
AnyHostIn(hostname) ==
  \E k \in 1..Len(supported_hosts) : Contains(supported_hosts[k], hostname)

(* ------------------------- urlparse(url).hostname --------------------- *)

SchemeChars == Letters \cup DigitChars \cup {"+", "-", "."}

\* s[from:d-1] for a delimiter found at d, s[from:] for d = 0 (none found)
UpTo(s, from, d) == SubSeq(s, from, IF d = 0 THEN Len(s) ELSE d - 1)

\* urlsplit: the text left once a leading "scheme:" is removed, c being the
\* index of the first ":"
AfterSchemeAt(url, c) ==
  IF /\ c > 1
     /\ url[1] \in Letters
     /\ \A k \in 1..(c-1) : url[k] \in SchemeChars
  THEN SubSeq(url, c + 1, Len(url))
  ELSE url

AfterScheme(url) == AfterSchemeAt(url, FindChar(url, {":"}, 1))

\* urlsplit: the network location, "" unless the rest starts with "//"
NetlocOf(rest) ==
  IF StartsWithAt(rest, <<"/","/">>, 1)
  THEN UpTo(rest, 3, FindChar(rest, {"/", "?", "#"}, 3))
  ELSE <<>>

Netloc(url) == NetlocOf(AfterScheme(url))

\* urlsplit raises ValueError("Invalid IPv6 URL") for a network location
\* with an unbalanced bracket
Unbalanced(n) == (FindChar(n, {"["}, 1) > 0) # (FindChar(n, {"]"}, 1) > 0)

\* the host of a network location without user info: the text in brackets
\* when there is an opening bracket (at ob), else the text before the port
HostPart(info, ob) ==
  IF ob > 0
  THEN UpTo(info, ob + 1, FindChar(info, {"]"}, ob + 1))
  ELSE UpTo(info, 1, FindChar(info, {":"}, 1))

\* the network location after its last "@" (at)
AfterUser(n, at) == SubSeq(n, at + 1, Len(n))

HostOfInfo(info) == HostPart(info, FindChar(info, {"["}, 1))

\* the hostname property for network location n, lower-cased; the empty
\* sequence stands for None, which the property returns for an empty host
HostnameOf(n) == Lower(HostOfInfo(AfterUser(n, RFindChar(n, "@"))))

\* urlparse(url) raises
UrlParseRaises(url) == Unbalanced(Netloc(url))

\* urlparse(url).hostname, <<>> for None
Hostname(url) == HostnameOf(Netloc(url))

(* ----------------------------- validate_link -------------------------- *)

\* the strings "invalid" and "unknown" of validate_link's dictionaries
InvalidHost == <<"i","n","v","a","l","i","d">>

UnknownHostType == <<"u","n","k","n","o","w","n">>

\* a string-valued key that a dictionary does not have
NoStr == <<Absent>>

\* the dictionary of the except branch, lines 87-93
InvalidInfo(link, e) ==
  [url |-> link, host |-> InvalidHost, valid |-> FALSE, supported |-> FALSE,
   host_type |-> NoStr, error |-> e]

\* the info dictionary, lines 71-82, for a hostname and its registry test
ValidInfo(link, hostname, isSupported) ==
  [url |-> link, host |-> hostname, valid |-> TRUE, supported |-> isSupported,
   host_type |-> IF isSupported THEN hostname ELSE UnknownHostType,
   error |-> Absent]

\* lines 69-84 for the hostname property h: None.lower() raises
\* AttributeError, which the except branch catches
ValidateHostNoneAsEmpty(link, h) == ValidInfo(link, Lower(h), AnyHostIn(Lower(h)))

ValidateHost(link, h) ==
  IF h = <<>>
  THEN InvalidInfo(link, "'NoneType' object has no attribute 'lower'")
  ELSE ValidInfo(link, Lower(h), AnyHostIn(Lower(h)))

\* lines 68-93 for the network location n of the link
ValidateParsed(link, n) ==
  IF Unbalanced(n)
  THEN InvalidInfo(link, "Invalid IPv6 URL")
  ELSE ValidateHost(link, HostnameOf(n))

\* validate_link: every exception of the try block becomes the valid=False
\* dictionary
validate_link(link) == ValidateParsed(link, Netloc(link))

(* ------------------------ extract_links_from_text --------------------- *)

\* the characters the class [^\s<>"'(){}[\]] of url_pattern excludes
ExcludedChars == {" ", "\t", "\n", "\r", "<", ">", "\"", "'", "(", ")", "{", "}", "[", "]"}

\* index just after "http://" or "https://" when text has one at p, else 0
SchemeEnd(text, p) ==
  IF StartsWithAt(text, <<"h","t","t","p","s",":","/","/">>, p) THEN p + 8
  ELSE IF StartsWithAt(text, <<"h","t","t","p",":","/","/">>, p) THEN p + 7
  ELSE 0

\* the end of the longest run of non-excluded characters, x being the index
\* of the first excluded character (0 for none)
RunEnd(text, x) == IF x = 0 THEN Len(text) + 1 ELSE x

\* url_pattern matched with its scheme ending before q: the index just after
\* the match, 0 for no match.  The class is greedy and "/" belongs to it, so
\* the match is the scheme and the longest non-empty run of non-excluded
\* characters.
MatchEndAfter(text, q) ==
  IF q = 0 \/ q > Len(text) \/ text[q] \in ExcludedChars
  THEN 0
  ELSE RunEnd(text, FindChar(text, ExcludedChars, q))

MatchEnd(text, p) == MatchEndAfter(text, SchemeEnd(text, p))

\* re.findall(url_pattern, text) scanning from p: leftmost, non-overlapping;
\* FindAllAt continues from a match ending before e, or from p + 1
RECURSIVE FindAll(_, _), FindAllAt(_, _, _)
FindAllAt(text, p, e) ==
  IF e > 0
  THEN <<SubSeq(text, p, e - 1)>> \o FindAll(text, e)
  ELSE FindAll(text, p + 1)

FindAll(text, p) ==
  IF p > Len(text) THEN <<>> ELSE FindAllAt(text, p, MatchEnd(text, p))

\* lines 55-56 for the hostname property h of a url
KeepsHost(h) == h # <<>> /\ AnyHostIn(Lower(h))

\* lines 54-59 for the network location n of a url: the bare except drops a
\* url whose parse raises or whose hostname is None
KeepsParsed(n) == ~Unbalanced(n) /\ KeepsHost(HostnameOf(n))

KeepsUrl(url) == KeepsParsed(Netloc(url))

\* valid_links, in order of appearance, duplicates included
valid_links(text) == SelectSeq(FindAll(text, 1), KeepsUrl)

\* the list returned without the set() that removes duplicates
ListKeepingDuplicates(xs) == {xs}

\* the lists list(set(xs)) can be: every ordering of the distinct elements
SetAsList(S) == {l \in [1..Cardinality(S) -> S] : Range(l) = S}

ListOfSet(xs) == SetAsList(Range(xs))

\* extract_links_from_text: the possible return values
extract_links_from_text(text) == ListOfSet(valid_links(text))

(* ------------------------- unlock_with_alldebrid ---------------------- *)

\* `not self.alldebrid_api_key` is false only for a non-empty string
HasKey(key) == key \notin {None, ""}

\* a result dictionary; Absent marks a key the dictionary does not have
Outcome(success, data, error, link, host) ==
  [success |-> success, data |-> data, error |-> error,
   original_link |-> link, host |-> host]

\* what the POST and response.json() can do: raise (timeout, connection
\* error, body that is not JSON) or yield a JSON value, an object or not
ServiceResponses ==
  [kind : {"ReadTimeout", "ConnectionError", "JSONDecodeError", "nonobject"},
   status : {Absent}, data : {Absent}, error : {Absent}]
  \cup [kind : {"object"}, status : {"success"},
        data : {Absent, None, "object", "array"}, error : {Absent}]
  \cup [kind : {"object"}, status : {"error"},
        data : {Absent}, error : {Absent, None, "LINK_HOST_NOT_SUPPORTED"}]
  \cup [kind : {"object"}, status : {Absent},
        data : {Absent}, error : {Absent}]

\* dict.get(key): None for a missing key
Get(value) == IF value = Absent THEN None ELSE value

\* dict.get(key, default)
GetOr(value, default) == IF value = Absent THEN default ELSE value

\* the try block as it would be if every status but "error" counted as success
unlock_response_NotError(link, resp) ==
  IF resp.kind = "nonobject"
  THEN Outcome(FALSE, Absent, "object has no attribute 'get'", link, NoStr)
  ELSE IF resp.kind # "object"
  THEN Outcome(FALSE, Absent, resp.kind, link, NoStr)
  ELSE IF resp.status # "error"
  THEN Outcome(TRUE, Get(resp.data), Absent, link, NoStr)
  ELSE Outcome(FALSE, Absent, GetOr(resp.error, "Unknown error"), link, NoStr)

\* the try block of unlock_with_alldebrid for a response; `data.get` on a
\* JSON value that is no object raises AttributeError, caught like the rest
unlock_response(link, resp) ==
  IF resp.kind = "nonobject"
  THEN Outcome(FALSE, Absent, "object has no attribute 'get'", link, NoStr)
  ELSE IF resp.kind # "object"
  THEN Outcome(FALSE, Absent, resp.kind, link, NoStr)
  ELSE IF resp.status = "success"
  THEN Outcome(TRUE, Get(resp.data), Absent, link, NoStr)
  ELSE Outcome(FALSE, Absent, GetOr(resp.error, "Unknown error"), link, NoStr)

\* unlock_with_alldebrid: no request without a key
unlock_with_alldebrid(key, link, resp) ==
  IF ~HasKey(key)
  THEN Outcome(FALSE, Absent, "No AllDebrid API key provided", link, NoStr)
  ELSE unlock_response(link, resp)

\* the requests unlock_with_alldebrid adds to the ones made so far
PostsAfter(calls, key, idx, link, resp) ==
  IF HasKey(key)
  THEN Append(calls, [idx |-> idx, link |-> link, resp |-> resp])
  ELSE calls

(* ------------------------------- inputs ------------------------------- *)

\* "http://k2s.cc/f": a registry host
LinkSupported == <<"h","t","t","p",":","/","/","k","2","s",".","c","c","/","f">>

\* "HTTP://u@XK2S.CC:80": upper case, user info, port, registry entry inside
LinkSubstring == <<"H","T","T","P",":","/","/","u","@","X","K","2","S",".","C","C",":","8","0">>

\* "http://e.co/f": a host outside the registry
LinkUnsupported == <<"h","t","t","p",":","/","/","e",".","c","o","/","f">>

\* "k2s.cc": no scheme, so no hostname
LinkNoHost == <<"k","2","s",".","c","c">>

\* "http://[": urlparse raises ValueError
LinkBadBracket == <<"h","t","t","p",":","/","/","[">>

\* the links a caller passes to process_links_batch (a batch may repeat one)
BatchPool == {LinkSupported, LinkUnsupported, LinkNoHost, LinkBadBracket}

\* the links a caller passes to unlock_with_alldebrid
LinkPool == BatchPool \cup {LinkSubstring}

\* the strings a caller passes to validate_link: the pool, "", "not a url",
\* "http://:80/", "//k2s.cc", "http://e.co?k2s.cc", "http://invalid"
ValidateInputs ==
  LinkPool \cup
  { <<>>,
    <<"n","o","t"," ","a"," ","u","r","l">>,
    <<"h","t","t","p",":","/","/",":","8","0","/">>,
    <<"/","/","k","2","s",".","c","c">>,
    <<"h","t","t","p",":","/","/","e",".","c","o","?","k","2","s",".","c","c">>,
    <<"h","t","t","p",":","/","/","i","n","v","a","l","i","d">> }

\* the pieces a file's text is made of: "http://k2s.cc", "https://k2s.cc",
\* "https://e.co", " ", "/f", "http://", "[", "K2S.CC"
TextChunks ==
  { <<"h","t","t","p",":","/","/","k","2","s",".","c","c">>,
    <<"h","t","t","p","s",":","/","/","k","2","s",".","c","c">>,
    <<"h","t","t","p","s",":","/","/","e",".","c","o">>,
    <<" ">>,
    <<"/","f">>,
    <<"h","t","t","p",":","/","/">>,
    <<"[">>,
    <<"K","2","S",".","C","C">> }

RECURSIVE TextsUpTo(_)
TextsUpTo(n) ==
  IF n = 0 THEN {<<>>}
  ELSE LET T == TextsUpTo(n - 1)
       IN  T \cup {t \o c : t \in T, c \in TextChunks}

Texts == TextsUpTo(MaxChunks)

Batches == UNION {[1..n -> BatchPool] : n \in 0..MaxBatch}

\* the alldebrid_api_key a StreamingScraper is constructed with
Keys == {None, "", "KEY"}

\* the public methods a run calls
Ops == {"validate_link", "unlock_with_alldebrid", "extract_links_from_text",
        "process_links_batch", "process_links_from_file"}

(* -------------------------------- state ------------------------------- *)

VARIABLES
  op,                 \* the method this run calls
  pc,                 \* position in the called method
  alldebrid_api_key,  \* self.alldebrid_api_key
  arg,                \* the link argument of validate_link / unlock_with_alldebrid
  fileExists,         \* whether open(filename) succeeds
  text,               \* the text argument, or the content of the file
  links,              \* the list process_links_batch iterates over
  i,                  \* the loop counter of process_links_batch
  results,            \* the results list of process_links_batch
  posts,              \* the requests posted to the service, in order
  sleeps,             \* the values of i at which time.sleep(1) ran, in order
  batch,              \* process_links_batch: "idle", "running", "returned", "raised"
  fault,              \* the exception that left process_links_batch
  ret,                \* the value the called method returned
  reported            \* what process_links_from_file did after extraction

vars == <<op, pc, alldebrid_api_key, arg, fileExists, text, links, i, results,
          posts, sleeps, batch, fault, ret, reported>>

Init ==
  /\ op \in Ops
  /\ pc = "call"
  /\ alldebrid_api_key \in Keys
  /\ arg \in (CASE op = "validate_link" -> ValidateInputs
                [] op = "unlock_with_alldebrid" -> LinkPool
                [] OTHER -> {<<>>})
  /\ fileExists \in (IF op = "process_links_from_file" THEN BOOLEAN ELSE {TRUE})
  /\ text \in (IF /\ op \in {"extract_links_from_text", "process_links_from_file"}
                  /\ fileExists
               THEN Texts ELSE {<<>>})
  /\ links \in (IF op = "process_links_batch" THEN Batches ELSE {<<>>})
  /\ i = 0
  /\ results = <<>>
  /\ posts = <<>>
  /\ sleeps = <<>>
  /\ batch = "idle"
  /\ fault = NoFault
  /\ ret = <<>>
  /\ reported = <<>>

(* ------------------------- the single-call methods -------------------- *)

\* validate_link(arg)
CallValidateLink ==
  /\ op = "validate_link" /\ pc = "call"
  /\ ret' = validate_link(arg)
  /\ pc' = "done"
  /\ UNCHANGED <<op, alldebrid_api_key, arg, fileExists, text, links, i, results,
                 posts, sleeps, batch, fault, reported>>

\* unlock_with_alldebrid(arg), the service answering resp
CallUnlock ==
  /\ op = "unlock_with_alldebrid" /\ pc = "call"
  /\ \E resp \in ServiceResponses :
       /\ ret' = unlock_with_alldebrid(alldebrid_api_key, arg, resp)
       /\ posts' = PostsAfter(posts, alldebrid_api_key, 0, arg, resp)
  /\ pc' = "done"
  /\ UNCHANGED <<op, alldebrid_api_key, arg, fileExists, text, links, i, results,
                 sleeps, batch, fault, reported>>

\* extract_links_from_text(text)
CallExtract ==
  /\ op = "extract_links_from_text" /\ pc = "call"
  /\ ret' \in extract_links_from_text(text)
  /\ pc' = "done"
  /\ UNCHANGED <<op, alldebrid_api_key, arg, fileExists, text, links, i, results,
                 posts, sleeps, batch, fault, reported>>

(* --------------------------- process_links_batch ---------------------- *)

Last(s) == s[Len(s)]

\* results = [] and the banner, lines 140-142
BatchEnter ==
  /\ pc = "batch"
  /\ results' = <<>>
  /\ i' = 0
  /\ batch' = "running"
  /\ pc' = "loop"
  /\ UNCHANGED <<op, alldebrid_api_key, arg, fileExists, text, links,
                 posts, sleeps, fault, ret, reported>>

\* process_links_batch(links) called by the run itself
CallBatch ==
  /\ op = "process_links_batch" /\ pc = "call"
  /\ pc' = "batch"
  /\ UNCHANGED <<op, alldebrid_api_key, arg, fileExists, text, links, i, results,
                 posts, sleeps, batch, fault, ret, reported>>

\* the for statement takes the next link and line 145 prints its hostname;
\* urlparse is called outside any try, so its ValueError leaves the method
LoopNext ==
  /\ pc = "loop" /\ i < Len(links)
  /\ i' = i + 1
  /\ IF UrlParseRaises(links[i + 1])
     THEN /\ fault' = "ValueError"
          /\ batch' = "raised"
          /\ pc' = "raised"
     ELSE /\ pc' = "validate"
          /\ UNCHANGED <<fault, batch>>
  /\ UNCHANGED <<op, alldebrid_api_key, arg, fileExists, text, links, results,
                 posts, sleeps, ret, reported>>

\* line 158 as it would be if it tested the key alone
GoesToServiceKeyOnly(validation) == HasKey(alldebrid_api_key)

\* line 158: the link goes to the service
GoesToService(validation) == validation.supported /\ HasKey(alldebrid_api_key)

\* lines 149-158 for the dictionary validate_link returned
Classified(validation) ==
  IF ~validation.valid
  THEN /\ results' = Append(results,
                            Outcome(FALSE, Absent, "Invalid link format", links[i], NoStr))
       /\ pc' = "loop"
  ELSE /\ results' = results
       /\ pc' = IF GoesToService(validation) THEN "unlock" ELSE "note"

\* lines 148-158: an invalid link gets its failure and `continue` skips the
\* rest of the body; a valid one goes to the service or to the note
Validate ==
  /\ pc = "validate"
  /\ Classified(validate_link(links[i]))
  /\ UNCHANGED <<op, alldebrid_api_key, arg, fileExists, text, links, i,
                 posts, sleeps, batch, fault, ret, reported>>

\* lines 159-160: the resolver's result is appended as it is
Unlock ==
  /\ pc = "unlock"
  /\ \E resp \in ServiceResponses :
       /\ results' = Append(results,
                            unlock_with_alldebrid(alldebrid_api_key, links[i], resp))
       /\ posts' = PostsAfter(posts, alldebrid_api_key, i, links[i], resp)
  /\ pc' = "show"
  /\ UNCHANGED <<op, alldebrid_api_key, arg, fileExists, text, links, i,
                 sleeps, batch, fault, ret, reported>>

\* lines 163-171: unlock_result.get("data", {}) is the stored value when the
\* key exists, so data.get raises AttributeError for None and for a value
\* that is no dictionary; nothing catches it
ShowRaises(unlock_result) ==
  unlock_result.success /\ unlock_result.data \in {None, "array"}

Show ==
  /\ pc = "show"
  /\ IF ShowRaises(Last(results))
     THEN /\ fault' = "AttributeError"
          /\ batch' = "raised"
          /\ pc' = "raised"
     ELSE /\ pc' = "pace"
          /\ UNCHANGED <<fault, batch>>
  /\ UNCHANGED <<op, alldebrid_api_key, arg, fileExists, text, links, i, results,
                 posts, sleeps, ret, reported>>

\* lines 174-180: the failure for no key or a host outside the registry
Noted(link, validation) ==
  Outcome(FALSE, Absent,
          IF ~HasKey(alldebrid_api_key) THEN "No AllDebrid API key" ELSE "Unsupported host",
          link, validation.host)

\* lines 172-181
Note ==
  /\ pc = "note"
  /\ results' = Append(results, Noted(links[i], validate_link(links[i])))
  /\ pc' = "pace"
  /\ UNCHANGED <<op, alldebrid_api_key, arg, fileExists, text, links, i,
                 posts, sleeps, batch, fault, ret, reported>>

\* lines 184-185 as they would be if the test were i <= len(links)
PaceAfterLast ==
  /\ pc = "pace"
  /\ sleeps' = IF i <= Len(links) THEN Append(sleeps, i) ELSE sleeps
  /\ pc' = "loop"
  /\ UNCHANGED <<op, alldebrid_api_key, arg, fileExists, text, links, i, results,
                 posts, batch, fault, ret, reported>>

\* lines 184-185: time.sleep(1) unless this was the last link
Pace ==
  /\ pc = "pace"
  /\ sleeps' = IF i < Len(links) THEN Append(sleeps, i) ELSE sleeps
  /\ pc' = "loop"
  /\ UNCHANGED <<op, alldebrid_api_key, arg, fileExists, text, links, i, results,
                 posts, batch, fault, ret, reported>>

\* line 187: return results
BatchReturn ==
  /\ pc = "loop" /\ i = Len(links)
  /\ batch' = "returned"
  /\ ret' = results
  /\ pc' = "returned"
  /\ UNCHANGED <<op, alldebrid_api_key, arg, fileExists, text, links, i, results,
                 posts, sleeps, fault, reported>>

(* ------------------------- process_links_from_file -------------------- *)

\* lines 243-251: open and read; FileNotFoundError is caught at line 258;
\* no links found returns before the batch
FileExtract ==
  /\ op = "process_links_from_file" /\ pc = "call"
  /\ IF ~fileExists
     THEN /\ reported' = <<"not found">>
          /\ pc' = "done"
          /\ links' = links
     ELSE /\ links' \in extract_links_from_text(text)
          /\ IF links' = <<>>
             THEN reported' = <<"no links">> /\ pc' = "done"
             ELSE reported' = reported /\ pc' = "batch"
  /\ UNCHANGED <<op, alldebrid_api_key, arg, fileExists, text, i, results,
                 posts, sleeps, batch, fault, ret>>

\* lines 255-256: display_results, then save_results, whose own try reports
\* a write error
FileReport ==
  /\ op = "process_links_from_file" /\ pc = "returned"
  /\ \E written \in BOOLEAN :
       reported' = <<"display_results",
                     IF written THEN "save_results" ELSE "save_results failed">>
  /\ pc' = "done"
  /\ UNCHANGED <<op, alldebrid_api_key, arg, fileExists, text, links, i, results,
                 posts, sleeps, batch, fault, ret>>

\* line 260: the exception that left the batch is caught and printed
FileExcept ==
  /\ op = "process_links_from_file" /\ pc = "raised"
  /\ reported' = <<"error processing file">>
  /\ pc' = "done"
  /\ UNCHANGED <<op, alldebrid_api_key, arg, fileExists, text, links, i, results,
                 posts, sleeps, batch, fault, ret>>

Next ==
  \/ CallValidateLink
  \/ CallUnlock
  \/ CallExtract
  \/ CallBatch
  \/ BatchEnter
  \/ LoopNext
  \/ Validate
  \/ Unlock
  \/ Show
  \/ Note
  \/ Pace
  \/ BatchReturn
  \/ FileExtract
  \/ FileReport
  \/ FileExcept

Spec == Init /\ [][Next]_vars

(* ------------------------ notions the properties use ------------------ *)

\* the batch has ended, by return or by an exception
BatchOver == batch \in {"returned", "raised"}

\* a dictionary value that is there and is not None
Present(v) == v \notin {Absent, None}

\* link k of the batch passes line 158: valid, supported, and a key is set
Eligible(k) ==
  /\ HasKey(alldebrid_api_key)
  /\ LET v == validate_link(links[k]) IN v.valid /\ v.supported

\* the loop body has been run for link k up to its end or to the exception
\* that ended it
Processed(k) ==
  \/ k < i
  \/ k = i /\ pc \notin {"validate", "unlock", "note"}

\* the number of requests posted for link k of the batch
CallsFor(k) == Cardinality({p \in 1..Len(posts) : posts[p].idx = k})

\* the number of links whose loop body has been left by its end or by continue
Left == IF pc = "loop" \/ batch = "returned" THEN i ELSE i - 1

\* the indices up to m that are not the last one and belong to valid links
RECURSIVE ValidBefore(_)
ValidBefore(m) ==
  IF m <= 0 THEN <<>>
  ELSE IF m < Len(links) /\ validate_link(links[m]).valid
       THEN Append(ValidBefore(m - 1), m)
       ELSE ValidBefore(m - 1)

\* the outcome the batch is to emit for link k
ExpectedOutcome(k) ==
  LET v == validate_link(links[k])
  IN  IF ~v.valid
      THEN Outcome(FALSE, Absent, "Invalid link format", links[k], NoStr)
      ELSE IF ~HasKey(alldebrid_api_key)
      THEN Outcome(FALSE, Absent, "No AllDebrid API key", links[k], v.host)
      ELSE IF ~v.supported
      THEN Outcome(FALSE, Absent, "Unsupported host", links[k], v.host)
      ELSE LET p == CHOOSE q \in 1..Len(posts) : posts[q].idx = k
           IN  unlock_response(links[k], posts[p].resp)

(* ------------------------------ properties ---------------------------- *)

\* C1: once process_links_batch has ended it has returned, and the returned
\* sequence has one outcome per input link: same length as the input and
\* original_link of element k equal to input element k.
C1_OneOutcomePerLink ==
  BatchOver =>
    /\ batch = "returned"
    /\ Len(ret) = Len(links)
    /\ \A k \in 1..Len(links) : ret[k].original_link = links[k]

\* C2: a fault raised while link i is processed is turned into a failure
\* outcome for link i and does not end the batch.
C2_FaultIsolated ==
  fault # NoFault =>
    /\ batch # "raised"
    /\ Len(results) >= i
    /\ ~results[i].success

\* success with a payload, or failure with an error message
Exclusive(o) ==
  \/ o.success /\ Present(o.data)
  \/ ~o.success /\ Present(o.error)

\* C3: every outcome returned by unlock_with_alldebrid or collected by
\* process_links_batch has success true with a payload present, or success
\* false with an error message present.
C3_OutcomeExclusive ==
  /\ \A k \in 1..Len(results) : Exclusive(results[k])
  /\ (op = "unlock_with_alldebrid" /\ pc = "done") => Exclusive(ret)

\* C4: in a batch the service is called exactly once for each processed link
\* that is valid, on a supported host and processed with a key set, never for
\* any other link, never twice, in input order, for the link itself; without
\* a key no request is made at all.
C4_OneCallPerEligibleLink ==
  batch # "idle" =>
    /\ \A k \in 1..Len(links) :
         CallsFor(k) = IF Processed(k) /\ Eligible(k) THEN 1 ELSE 0
    /\ \A p \in 1..Len(posts) :
         /\ posts[p].idx \in 1..Len(links)
         /\ posts[p].link = links[posts[p].idx]
    /\ \A p, q \in 1..Len(posts) : p < q => posts[p].idx < posts[q].idx
    /\ ~HasKey(alldebrid_api_key) => posts = <<>>
    /\ batch = "returned" =>
         \A k \in 1..Len(links) : CallsFor(k) = IF Eligible(k) THEN 1 ELSE 0

C4_Witness ==
  /\ op = "process_links_batch" /\ batch = "returned"
  /\ Len(links) = 3
  /\ Len(posts) = 2
  /\ posts[1].idx = 1 /\ posts[2].idx = 3
  /\ ~validate_link(links[2]).supported

\* C5 as claimed: a batch of n >= 1 links that returns has paused after each
\* of its links 1..n-1, rejected ones included, and not after link n.
C5_PauseAfterEveryLinkButLast ==
  (batch = "returned" /\ Len(links) >= 1) =>
    sleeps = [k \in 1..(Len(links) - 1) |-> k]

\* C5 amended: whenever the loop is about to take link k+1, and at the
\* return, the pauses made so far are one after each structurally valid link
\* among links 1..k that is not the last link, in order; there is none after
\* an invalid link (its `continue` skips the pause) and none after the last.
C5_PauseAfterValidLinks ==
  batch # "idle" => sleeps = ValidBefore(Left)

C5_Witness ==
  /\ batch = "returned"
  /\ Len(links) = 3
  /\ ~validate_link(links[1]).valid
  /\ validate_link(links[2]).valid
  /\ sleeps = <<2>>
  /\ posts = <<>>

\* C6: when the batch has ended, every input link has its outcome and the
\* outcome is the one its classification and the key decide: invalid link
\* format; no key, with the host; unsupported host, with the host; or the
\* resolver's outcome for the response to that link's request.
C6_OutcomeByClassification ==
  BatchOver =>
    \A k \in 1..Len(links) :
      /\ Len(results) >= k
      /\ results[k] = ExpectedOutcome(k)

\* C7: validate_link returns for every string and raises nothing; an invalid
\* result is unsupported with host "invalid"; a valid result has a non-empty
\* host without upper-case letters, and supported is true exactly when a
\* registry entry occurs inside the host.
C7_ValidateTotal ==
  (op = "validate_link" /\ pc = "done") =>
    /\ fault = NoFault
    /\ ret.url = arg
    /\ ~ret.valid => (~ret.supported /\ ret.host = InvalidHost)
    /\ ret.valid =>
         /\ ret.host # <<>>
         /\ \A k \in 1..Len(ret.host) : ret.host[k] \notin Range(UpperChars)
         /\ ret.supported =
              (\E e \in Range(supported_hosts) :
                 \E at \in 0..(Len(ret.host) - Len(e)) :
                   SubSeq(ret.host, at + 1, at + Len(e)) = e)

C7_Witness ==
  /\ op = "validate_link" /\ pc = "done"
  /\ arg = LinkBadBracket
  /\ UrlParseRaises(arg)
  /\ ~ret.valid

\* the response is a JSON object whose status is "success"
SuccessDeclared(resp) == resp.kind = "object" /\ resp.status = "success"

\* C8: unlock_with_alldebrid returns an outcome for the link it was given
\* whatever the service does; the outcome is a failure after a timeout, a
\* connection error, a body that is not JSON or not an object, and any
\* status other than "success"; it is a success only for status "success".
C8_UnlockNeverRaises ==
  /\ (op = "unlock_with_alldebrid" /\ pc = "done") =>
       /\ fault = NoFault
       /\ ret.original_link = arg
       /\ ret.success => (posts # <<>> /\ SuccessDeclared(posts[1].resp))
       /\ \A p \in 1..Len(posts) : ~SuccessDeclared(posts[p].resp) => ~ret.success
  /\ batch # "idle" =>
       \A p \in 1..Len(posts) :
         /\ results[posts[p].idx].original_link = posts[p].link
         /\ results[posts[p].idx].success => SuccessDeclared(posts[p].resp)

C8_Witness ==
  /\ op = "unlock_with_alldebrid" /\ pc = "done"
  /\ posts # <<>>
  /\ posts[1].resp.kind = "nonobject"
  /\ ~ret.success
  /\ ret.original_link = arg

\* the token's hostname parses and a registry entry occurs in it
TokenSupported(u) ==
  /\ ~UrlParseRaises(u)
  /\ Hostname(u) # <<>>
  /\ \E e \in Range(supported_hosts) : Contains(e, Hostname(u))

\* C9: extract_links_from_text returns, without duplicates, exactly the
\* matched URL tokens whose hostname parses and contains a registry entry;
\* empty text and text without a supported host give an empty list.
C9_ExtractDistinctSupported ==
  (op = "extract_links_from_text" /\ pc = "done") =>
    /\ \A a, b \in 1..Len(ret) : ret[a] = ret[b] => a = b
    /\ Range(ret) = {u \in Range(FindAll(text, 1)) : TokenSupported(u)}
    /\ text = <<>> => ret = <<>>
    /\ (\A u \in Range(FindAll(text, 1)) : ~TokenSupported(u)) => ret = <<>>

C9_Witness ==
  /\ op = "extract_links_from_text" /\ pc = "done"
  /\ Len(FindAll(text, 1)) = 2
  /\ FindAll(text, 1)[1] = FindAll(text, 1)[2]
  /\ Len(ret) = 1

\* C10: in process_links_from_file the links handed to the batch are
\* distinct, valid and supported; no outcome is "Invalid link format" or
\* "Unsupported host"; with a key set, when the method is done every link
\* has had exactly one request; with no link found the batch and
\* save_results are not run.
C10_FileModeAllResolved ==
  (op = "process_links_from_file" /\ pc # "call") =>
    /\ \A a, b \in 1..Len(links) : links[a] = links[b] => a = b
    /\ \A k \in 1..Len(links) :
         LET v == validate_link(links[k]) IN v.valid /\ v.supported
    /\ \A k \in 1..Len(results) :
         results[k].error \notin {"Invalid link format", "Unsupported host"}
    /\ (pc = "done" /\ HasKey(alldebrid_api_key)) =>
         \A k \in 1..Len(links) : CallsFor(k) = 1
    /\ links = <<>> => (batch = "idle" /\ reported \in {<<"no links">>, <<"not found">>})

====
